---- MODULE Spec2Model ----
(***************************************************************************)
(* Deferred tile-fetch pipeline of prof-viewer:                            *)
(*   - the Local Wrapper       (src/src/deferred_data.rs)                  *)
(*   - the Transport Backends  (src/src/http/fetch_native.rs, fetch_web.rs)*)
(*     driven by the Remote Queue Client                                   *)
(*   - the HTTP server         (src/src/http/server.rs, schema.rs)         *)
(* Each component has its own specification over the shared variables:     *)
(* SpecWrapper, SpecRemote, SpecServer.                                    *)
(***************************************************************************)
EXTENDS Integers, Sequences, FiniteSets, TLC

\* ------------------------------------------------------------------ bounds
\* Number of fetch_*_tile calls made on the Local Wrapper in one run.
MaxCalls == 3

\* Number of fetch_slot_tile calls issued through a transport backend (the N of
\* the concurrency property).
NumRequests == 2

\* Number of HTTP requests the server receives in one run.
NumHttpRequests == 2

\* Largest Timestamp (ns) used as an interval bound or a point; the smallest
\* is -1 (Timestamp is a signed i64).
MaxTimestamp == 2

\* Longest string handed to parse_timestamp, in characters.
MaxLen == 5

\* ------------------------------------------------------------ identifiers
\* EntryID and TileID are opaque keys (crate::data); two of each.
EntryIDs == {"e1", "e2"}

TileIDs == {"t1", "t2"}

Kinds == {"summary", "slot", "slot_meta"}

VARIABLES
    \* DeferredDataSourceWrapper fields (deferred_data.rs:18-23)
    summary_tiles, slot_tiles, slot_meta_tiles,
    \* return value of the last Local Wrapper call: [op, val]
    w_ret,
    \* history: per kind, the tiles of all fetch_* calls so far, in call order
    w_fetched,
    \* history: per kind, all batches returned by get_* so far, concatenated
    w_drained,
    \* history: names of the fetch_info / fetch_tile_sets calls made so far
    w_requested,
    \* which transport backend the build selected (http/mod.rs:8-11)
    backend,
    \* per transport request: where its worker / task is
    t_pc,
    \* per transport request: the configured request value handed to fetch
    t_request,
    \* per transport request: the Result of request.send()
    t_send,
    \* per transport request: the Result of response.text()
    t_text,
    \* history: per transport request, the values on_done was invoked with
    t_callbacks,
    \* whether the thread that called fetch has panicked
    caller_panicked,
    \* Remote Queue Client: the slot-tile buffer filled by the callbacks
    c_slot_tiles,
    \* history: all batches returned by the client's get_slot_tiles, concatenated
    c_drained,
    \* AppState.data_source: the std::sync::Mutex around the data source
    \* (owner: the request whose handler holds the guard, 0 when free)
    s_mutex,
    \* per HTTP request: where its handler is
    s_pc,
    \* per HTTP request: the request as received, [path, body]
    s_request,
    \* history: per HTTP request, the data-source operations its handler invoked
    s_invoked,
    \* per HTTP request: the value the data source returned to its handler
    s_result,
    \* per HTTP request: what its client got back
    s_response,
    \* the Interval operands self and other, and the Timestamp operand point
    i_self, i_other, i_point,
    \* the Interval method applied last and its value: [op, val]
    i_out,
    \* the argument s of parse_timestamp
    p_s,
    \* None before parse_timestamp has returned, then Some(its Result)
    p_result

wrapper_vars == <<summary_tiles, slot_tiles, slot_meta_tiles, w_ret,
                  w_fetched, w_drained, w_requested>>

remote_vars == <<backend, t_pc, t_request, t_send, t_text, t_callbacks,
                 caller_panicked, c_slot_tiles, c_drained>>

server_vars == <<s_mutex, s_pc, s_request, s_invoked, s_result, s_response>>

interval_vars == <<i_self, i_other, i_point, i_out>>

parse_vars == <<p_s, p_result>>

timestamp_vars == <<interval_vars, parse_vars>>

vars == <<wrapper_vars, remote_vars, server_vars, timestamp_vars>>

\* --------------------------------------------------- the data source
\* The synchronous DataSource capability (crate::data, consumed by the
\* wrapper and by the server).  A payload is identified by its kind and its
\* (EntryID, TileID) key.
DataSource_fetch_info == "DataSourceInfo"

DataSource_fetch_tile_sets == <<<<"t1", "t2">>>>

DataSource_fetch_summary_tile(entry_id, tile_id) ==
    [kind |-> "summary", entry_id |-> entry_id, tile_id |-> tile_id]

DataSource_fetch_slot_tile(entry_id, tile_id) ==
    [kind |-> "slot", entry_id |-> entry_id, tile_id |-> tile_id]

DataSource_fetch_slot_meta_tile(entry_id, tile_id) ==
    [kind |-> "slot_meta", entry_id |-> entry_id, tile_id |-> tile_id]

\* Option<T>
Some(v) == <<"Some", v>>

None == <<"None">>

\* --------------------------------------------------- Local Wrapper
\* A panic inside the data source unwinds out of the wrapper call before any
\* field is written and the call does not return: it is a stuttering step.

WrapperCalls == Len(w_fetched["summary"]) + Len(w_fetched["slot"])
                + Len(w_fetched["slot_meta"])

\* DeferredDataSourceWrapper::new
WrapperInit ==
    /\ summary_tiles = <<>>
    /\ slot_tiles = <<>>
    /\ slot_meta_tiles = <<>>
    /\ w_ret = [op |-> "new", val |-> <<>>]
    /\ w_fetched = [k \in Kinds |-> <<>>]
    /\ w_drained = [k \in Kinds |-> <<>>]
    /\ w_requested = {}

\* fn fetch_info(&mut self) {}
Wrapper_fetch_info ==
    /\ w_ret' = [op |-> "fetch_info", val |-> <<>>]
    /\ w_requested' = w_requested \cup {"fetch_info"}
    /\ UNCHANGED <<summary_tiles, slot_tiles, slot_meta_tiles, w_fetched, w_drained>>
    /\ UNCHANGED <<remote_vars, server_vars, timestamp_vars>>

\* mutant: get_info as a buffered value that is absent until fetch_info ran
get_info_result_buffered ==
    IF "fetch_info" \in w_requested THEN Some(DataSource_fetch_info) ELSE None

\* the value get_info returns
get_info_result == Some(DataSource_fetch_info)

Wrapper_get_info ==
    /\ w_ret' = [op |-> "get_info", val |-> get_info_result]
    /\ UNCHANGED <<summary_tiles, slot_tiles, slot_meta_tiles, w_fetched, w_drained,
                   w_requested>>
    /\ UNCHANGED <<remote_vars, server_vars, timestamp_vars>>

\* fn fetch_tile_sets(&mut self) {}
Wrapper_fetch_tile_sets ==
    /\ w_ret' = [op |-> "fetch_tile_sets", val |-> <<>>]
    /\ w_requested' = w_requested \cup {"fetch_tile_sets"}
    /\ UNCHANGED <<summary_tiles, slot_tiles, slot_meta_tiles, w_fetched, w_drained>>
    /\ UNCHANGED <<remote_vars, server_vars, timestamp_vars>>

\* the value get_tile_sets returns
get_tile_sets_result == Some(DataSource_fetch_tile_sets)

Wrapper_get_tile_sets ==
    /\ w_ret' = [op |-> "get_tile_sets", val |-> get_tile_sets_result]
    /\ UNCHANGED <<summary_tiles, slot_tiles, slot_meta_tiles, w_fetched, w_drained,
                   w_requested>>
    /\ UNCHANGED <<remote_vars, server_vars, timestamp_vars>>

\* mutant: a tile already in the buffer is not pushed again
push_summary_tile_dedup(entry_id, tile_id) ==
    IF \E i \in 1..Len(summary_tiles) :
            summary_tiles[i] = DataSource_fetch_summary_tile(entry_id, tile_id)
        THEN summary_tiles
        ELSE Append(summary_tiles, DataSource_fetch_summary_tile(entry_id, tile_id))

\* mutant: the new tile replaces the buffer instead of being appended to it
push_summary_tile_overwrite(entry_id, tile_id) ==
    <<DataSource_fetch_summary_tile(entry_id, tile_id)>>

\* self.summary_tiles.push(self.data_source.fetch_summary_tile(entry_id, tile_id))
push_summary_tile(entry_id, tile_id) ==
    Append(summary_tiles, DataSource_fetch_summary_tile(entry_id, tile_id))

Wrapper_fetch_summary_tile ==
    /\ WrapperCalls < MaxCalls
    /\ \E entry_id \in EntryIDs, tile_id \in TileIDs :
        /\ summary_tiles' = push_summary_tile(entry_id, tile_id)
        /\ w_fetched' = [w_fetched EXCEPT !["summary"] =
                Append(@, DataSource_fetch_summary_tile(entry_id, tile_id))]
    /\ w_ret' = [op |-> "fetch_summary_tile", val |-> <<>>]
    /\ UNCHANGED <<slot_tiles, slot_meta_tiles, w_drained, w_requested>>
    /\ UNCHANGED <<remote_vars, server_vars, timestamp_vars>>

\* mutant: the buffer is cloned, not taken
take_summary_tiles_left_clone == summary_tiles

\* std::mem::take(&mut self.summary_tiles): what is left in the field
take_summary_tiles_left == <<>>

\* std::mem::take(&mut self.summary_tiles): what is returned
take_summary_tiles_returned == summary_tiles

\* mutant: one drain empties all three buffers
Wrapper_get_summary_tiles_clears_all ==
    /\ w_ret' = [op |-> "get_summary_tiles", val |-> take_summary_tiles_returned]
    /\ summary_tiles' = take_summary_tiles_left
    /\ slot_tiles' = <<>>
    /\ slot_meta_tiles' = <<>>
    /\ w_drained' = [w_drained EXCEPT !["summary"] = @ \o take_summary_tiles_returned]
    /\ UNCHANGED <<w_fetched, w_requested>>
    /\ UNCHANGED <<remote_vars, server_vars, timestamp_vars>>

Wrapper_get_summary_tiles ==
    /\ w_ret' = [op |-> "get_summary_tiles", val |-> take_summary_tiles_returned]
    /\ summary_tiles' = take_summary_tiles_left
    /\ w_drained' = [w_drained EXCEPT !["summary"] = @ \o take_summary_tiles_returned]
    /\ UNCHANGED <<slot_tiles, slot_meta_tiles, w_fetched, w_requested>>
    /\ UNCHANGED <<remote_vars, server_vars, timestamp_vars>>

\* self.slot_tiles.push(self.data_source.fetch_slot_tile(entry_id, tile_id))
push_slot_tile(entry_id, tile_id) ==
    Append(slot_tiles, DataSource_fetch_slot_tile(entry_id, tile_id))

Wrapper_fetch_slot_tile ==
    /\ WrapperCalls < MaxCalls
    /\ \E entry_id \in EntryIDs, tile_id \in TileIDs :
        /\ slot_tiles' = push_slot_tile(entry_id, tile_id)
        /\ w_fetched' = [w_fetched EXCEPT !["slot"] =
                Append(@, DataSource_fetch_slot_tile(entry_id, tile_id))]
    /\ w_ret' = [op |-> "fetch_slot_tile", val |-> <<>>]
    /\ UNCHANGED <<summary_tiles, slot_meta_tiles, w_drained, w_requested>>
    /\ UNCHANGED <<remote_vars, server_vars, timestamp_vars>>

\* std::mem::take(&mut self.slot_tiles)
take_slot_tiles_left == <<>>

take_slot_tiles_returned == slot_tiles

Wrapper_get_slot_tiles ==
    /\ w_ret' = [op |-> "get_slot_tiles", val |-> take_slot_tiles_returned]
    /\ slot_tiles' = take_slot_tiles_left
    /\ w_drained' = [w_drained EXCEPT !["slot"] = @ \o take_slot_tiles_returned]
    /\ UNCHANGED <<summary_tiles, slot_meta_tiles, w_fetched, w_requested>>
    /\ UNCHANGED <<remote_vars, server_vars, timestamp_vars>>

\* self.slot_meta_tiles.push(self.data_source.fetch_slot_meta_tile(entry_id, tile_id))
push_slot_meta_tile(entry_id, tile_id) ==
    Append(slot_meta_tiles, DataSource_fetch_slot_meta_tile(entry_id, tile_id))

Wrapper_fetch_slot_meta_tile ==
    /\ WrapperCalls < MaxCalls
    /\ \E entry_id \in EntryIDs, tile_id \in TileIDs :
        /\ slot_meta_tiles' = push_slot_meta_tile(entry_id, tile_id)
        /\ w_fetched' = [w_fetched EXCEPT !["slot_meta"] =
                Append(@, DataSource_fetch_slot_meta_tile(entry_id, tile_id))]
    /\ w_ret' = [op |-> "fetch_slot_meta_tile", val |-> <<>>]
    /\ UNCHANGED <<summary_tiles, slot_tiles, w_drained, w_requested>>
    /\ UNCHANGED <<remote_vars, server_vars, timestamp_vars>>

\* std::mem::take(&mut self.slot_meta_tiles)
take_slot_meta_tiles_left == <<>>

take_slot_meta_tiles_returned == slot_meta_tiles

Wrapper_get_slot_meta_tiles ==
    /\ w_ret' = [op |-> "get_slot_meta_tiles", val |-> take_slot_meta_tiles_returned]
    /\ slot_meta_tiles' = take_slot_meta_tiles_left
    /\ w_drained' = [w_drained EXCEPT !["slot_meta"] = @ \o take_slot_meta_tiles_returned]
    /\ UNCHANGED <<summary_tiles, slot_tiles, w_fetched, w_requested>>
    /\ UNCHANGED <<remote_vars, server_vars, timestamp_vars>>

WrapperNext ==
    \/ Wrapper_fetch_info
    \/ Wrapper_get_info
    \/ Wrapper_fetch_tile_sets
    \/ Wrapper_get_tile_sets
    \/ Wrapper_fetch_summary_tile
    \/ Wrapper_get_summary_tiles
    \/ Wrapper_fetch_slot_tile
    \/ Wrapper_get_slot_tiles
    \/ Wrapper_fetch_slot_meta_tile
    \/ Wrapper_get_slot_meta_tiles

\* --------------------------------------------------- JSON bodies
\* serde_json text of a FetchRequest (http/schema.rs:5-9): an object with the
\* named fields entry_id and tile_id.
FetchRequest_to_json(entry_id, tile_id) ==
    <<"{", "entry_id", entry_id, "tile_id", tile_id, "}">>

FetchRequest_from_json(text) ==
    IF /\ Len(text) = 6
       /\ text[1] = "{" /\ text[2] = "entry_id" /\ text[4] = "tile_id" /\ text[6] = "}"
    THEN Some([entry_id |-> text[3], tile_id |-> text[5]])
    ELSE None

\* serde_json text of a tile payload, and its decoding
Tile_to_json(tile) ==
    <<"{", "kind", tile.kind, "entry_id", tile.entry_id, "tile_id", tile.tile_id, "}">>

Tile_from_json(text) ==
    IF /\ Len(text) = 8
       /\ text[1] = "{" /\ text[2] = "kind" /\ text[4] = "entry_id"
       /\ text[6] = "tile_id" /\ text[8] = "}"
    THEN Some([kind |-> text[3], entry_id |-> text[5], tile_id |-> text[7]])
    ELSE None

\* --------------------------------------------------- Transport backends
Requests == 1..NumRequests

Ok(v) == <<"Ok", v>>

Err(v) == <<"Err", v>>

\* What the HTTP server sends back for a POST /slot_tile: its handler always
\* answers Ok(web::Json(result)) (server.rs:65-74).
slot_tile_response_body(request) ==
    LET info == FetchRequest_from_json(request.body)[2]
    IN  Tile_to_json(DataSource_fetch_slot_tile(info.entry_id, info.tile_id))

RemoteInit ==
    /\ backend \in {"native", "web"}
    /\ t_pc = [r \in Requests |-> "unused"]
    /\ t_request = [r \in Requests |-> <<>>]
    /\ t_send = [r \in Requests |-> "pending"]
    /\ t_text = [r \in Requests |-> "pending"]
    /\ t_callbacks = [r \in Requests |-> <<>>]
    /\ caller_panicked = FALSE
    /\ c_slot_tiles = <<>>
    /\ c_drained = <<>>

\* The callback the Remote Queue Client hands to fetch: decode the body into
\* a SlotTile and append it to the buffer under the buffer's lock.
Client_on_done(result) ==
    IF result[1] = "Ok" /\ Tile_from_json(result[2].body) # None
    THEN Append(c_slot_tiles, Tile_from_json(result[2].body)[2])
    ELSE c_slot_tiles

\* on_done(result): the callback is invoked with result
InvokeOnDone(r, result) ==
    /\ t_callbacks' = [t_callbacks EXCEPT ![r] = Append(@, result)]
    /\ c_slot_tiles' = Client_on_done(result)

\* fetch_native.rs: std::thread::Builder::new().name(..).spawn(..)
\*                      .expect("unable to spawn thread")
fetch_native(r) ==
    /\ backend = "native"
    /\ \/ /\ t_pc' = [t_pc EXCEPT ![r] = "spawned"]
          /\ UNCHANGED caller_panicked
       \/ \* spawn returned Err: expect panics in the caller, the closure that
          \* owns on_done is dropped uncalled
          /\ t_pc' = [t_pc EXCEPT ![r] = "spawn_panicked"]
          /\ caller_panicked' = TRUE

\* fetch_native.rs:12-14  request.send().expect("test")
native_send_expect(r, res) ==
    /\ t_send' = [t_send EXCEPT ![r] = res]
    /\ t_pc' = [t_pc EXCEPT ![r] = IF res = "Ok" THEN "have_response" ELSE "panicked"]

native_send(r) ==
    /\ backend = "native"
    /\ t_pc[r] = "spawned"
    /\ \E res \in {"Ok", "Err"} : native_send_expect(r, res)
    /\ UNCHANGED <<backend, t_request, t_text, t_callbacks, caller_panicked,
                   c_slot_tiles, c_drained>>
    /\ UNCHANGED <<wrapper_vars, server_vars, timestamp_vars>>

\* mutant: a body that cannot be read becomes an empty body instead of a panic
native_text_expect_or_default(r, res) ==
    /\ t_text' = [t_text EXCEPT ![r] = res]
    /\ t_pc' = [t_pc EXCEPT ![r] = "have_text"]

\* fetch_native.rs:15-16  .text().expect("unable to get text")
native_text_expect(r, res) ==
    /\ t_text' = [t_text EXCEPT ![r] = res]
    /\ t_pc' = [t_pc EXCEPT ![r] = IF res = "Ok" THEN "have_text" ELSE "panicked"]

native_text(r) ==
    /\ backend = "native"
    /\ t_pc[r] = "have_response"
    /\ \E res \in {"Ok", "Err"} : native_text_expect(r, res)
    /\ UNCHANGED <<backend, t_request, t_send, t_callbacks, caller_panicked,
                   c_slot_tiles, c_drained>>
    /\ UNCHANGED <<wrapper_vars, server_vars, timestamp_vars>>

\* the text the worker holds once text() returned
body_text(r) ==
    IF t_text[r] = "Ok" THEN slot_tile_response_body(t_request[r]) ELSE <<>>

\* fetch_native.rs:18  on_done(Ok(DataSourceResponse { body: text }))
native_on_done(r) ==
    /\ backend = "native"
    /\ t_pc[r] = "have_text"
    /\ InvokeOnDone(r, Ok([body |-> body_text(r)]))
    /\ t_pc' = [t_pc EXCEPT ![r] = "done"]
    /\ UNCHANGED <<backend, t_request, t_send, t_text, caller_panicked, c_drained>>
    /\ UNCHANGED <<wrapper_vars, server_vars, timestamp_vars>>

\* fetch_web.rs:20  spawn_future(async move { .. }): the task is queued on the
\* host's event loop
fetch_web(r) ==
    /\ backend = "web"
    /\ t_pc' = [t_pc EXCEPT ![r] = "spawned"]
    /\ UNCHANGED caller_panicked

\* fetch_web.rs:21-24  request.send().await.expect("send failed")
web_send_expect(r, res) ==
    /\ t_send' = [t_send EXCEPT ![r] = res]
    /\ t_pc' = [t_pc EXCEPT ![r] = IF res = "Ok" THEN "have_response" ELSE "panicked"]

web_send(r) ==
    /\ backend = "web"
    /\ t_pc[r] = "spawned"
    /\ \E res \in {"Ok", "Err"} : web_send_expect(r, res)
    /\ UNCHANGED <<backend, t_request, t_text, t_callbacks, caller_panicked,
                   c_slot_tiles, c_drained>>
    /\ UNCHANGED <<wrapper_vars, server_vars, timestamp_vars>>

\* fetch_web.rs:25-27  .text().await.expect("unable to get text")
web_text_expect(r, res) ==
    /\ t_text' = [t_text EXCEPT ![r] = res]
    /\ t_pc' = [t_pc EXCEPT ![r] = IF res = "Ok" THEN "have_text" ELSE "panicked"]

web_text(r) ==
    /\ backend = "web"
    /\ t_pc[r] = "have_response"
    /\ \E res \in {"Ok", "Err"} : web_text_expect(r, res)
    /\ UNCHANGED <<backend, t_request, t_send, t_callbacks, caller_panicked,
                   c_slot_tiles, c_drained>>
    /\ UNCHANGED <<wrapper_vars, server_vars, timestamp_vars>>

\* fetch_web.rs:29-31  let res = Ok(DataSourceResponse { body: text }); on_done(res)
web_on_done(r) ==
    /\ backend = "web"
    /\ t_pc[r] = "have_text"
    /\ InvokeOnDone(r, Ok([body |-> body_text(r)]))
    /\ t_pc' = [t_pc EXCEPT ![r] = "done"]
    /\ UNCHANGED <<backend, t_request, t_send, t_text, caller_panicked, c_drained>>
    /\ UNCHANGED <<wrapper_vars, server_vars, timestamp_vars>>

\* Remote Queue Client: fetch_slot_tile(entry_id, tile_id) builds the POST
\* /slot_tile request and issues it through the transport backend.
Client_fetch_slot_tile(r) ==
    /\ ~caller_panicked
    /\ t_pc[r] = "unused"
    /\ \E entry_id \in EntryIDs, tile_id \in TileIDs :
        t_request' = [t_request EXCEPT ![r] =
            [path |-> "/slot_tile", body |-> FetchRequest_to_json(entry_id, tile_id)]]
    /\ (fetch_native(r) \/ fetch_web(r))
    /\ UNCHANGED <<backend, t_send, t_text, t_callbacks, c_slot_tiles, c_drained>>
    /\ UNCHANGED <<wrapper_vars, server_vars, timestamp_vars>>

\* Remote Queue Client: get_slot_tiles() takes the buffer under its lock.
Client_get_slot_tiles ==
    /\ ~caller_panicked
    /\ c_drained' = c_drained \o c_slot_tiles
    /\ c_slot_tiles' = <<>>
    /\ UNCHANGED <<backend, t_pc, t_request, t_send, t_text, t_callbacks,
                   caller_panicked>>
    /\ UNCHANGED <<wrapper_vars, server_vars, timestamp_vars>>

RemoteNext ==
    \/ \E r \in Requests : Client_fetch_slot_tile(r)
    \/ Client_get_slot_tiles
    \/ \E r \in Requests : native_send(r)
    \/ \E r \in Requests : native_text(r)
    \/ \E r \in Requests : native_on_done(r)
    \/ \E r \in Requests : web_send(r)
    \/ \E r \in Requests : web_text(r)
    \/ \E r \in Requests : web_on_done(r)

\* --------------------------------------------------- HTTP server
HttpRequests == 1..NumHttpRequests

Paths == {"/info", "/tile_set", "/summary_tile", "/slot_tile", "/slot_meta_tile"}

NoResponse == [kind |-> "pending", status |-> 0, body |-> <<>>]

\* The connection is closed without an HTTP response: the handler unwound and
\* produced no value, and no middleware of create_server (server.rs:101-104:
\* Logger, Compress, Cors) turns an unwinding handler into a reply.
ConnectionClosed == [kind |-> "closed", status |-> 0, body |-> <<>>]

HttpResponse(status, body) == [kind |-> "http", status |-> status, body |-> body]

Info_to_json(info) == <<"{", "info", info, "}">>

TileSets_to_json(tile_sets) == <<"[", tile_sets, "]">>

\* DataSourceHTTPServer::new: Mutex::new(state)
ServerInit ==
    /\ s_mutex = [owner |-> 0, poisoned |-> FALSE]
    /\ s_pc = [q \in HttpRequests |-> "none"]
    /\ s_request = [q \in HttpRequests |-> [path |-> "", body |-> <<>>]]
    /\ s_invoked = [q \in HttpRequests |-> <<>>]
    /\ s_result = [q \in HttpRequests |-> None]
    /\ s_response = [q \in HttpRequests |-> NoResponse]

\* create_server: .route(path, web::post().to(Self::handler))
Route(path) ==
    CASE path = "/info" -> "fetch_info"
      [] path = "/tile_set" -> "fetch_tile_set"
      [] path = "/summary_tile" -> "fetch_summary_tile"
      [] path = "/slot_tile" -> "fetch_slot_tile"
      [] path = "/slot_meta_tile" -> "fetch_slot_meta_tile"

\* info: web::Json<FetchRequest>, the extractor of the three tile handlers
ExtractInfo(request) ==
    IF request.path \in {"/info", "/tile_set"}
    THEN [entry_id |-> "", tile_id |-> ""]
    ELSE FetchRequest_from_json(request.body)[2]

\* mutant: the handler ignores the tile id of the request
HandlerCall_ignores_tile_id(handler, info) ==
    CASE handler = "fetch_info" -> [op |-> "fetch_info", entry_id |-> "", tile_id |-> ""]
      [] handler = "fetch_tile_set" -> [op |-> "fetch_tile_set", entry_id |-> "", tile_id |-> ""]
      [] OTHER -> [op |-> handler, entry_id |-> info.entry_id, tile_id |-> "t1"]

\* The data-source call each handler makes:
\*   source.fetch_info(), source.fetch_tile_set(),
\*   source.fetch_summary_tile(&info.entry_id, info.tile_id), ...
HandlerCall(handler, info) ==
    CASE handler = "fetch_info" -> [op |-> "fetch_info", entry_id |-> "", tile_id |-> ""]
      [] handler = "fetch_tile_set" -> [op |-> "fetch_tile_set", entry_id |-> "", tile_id |-> ""]
      [] handler = "fetch_summary_tile" ->
            [op |-> "fetch_summary_tile", entry_id |-> info.entry_id, tile_id |-> info.tile_id]
      [] handler = "fetch_slot_tile" ->
            [op |-> "fetch_slot_tile", entry_id |-> info.entry_id, tile_id |-> info.tile_id]
      [] handler = "fetch_slot_meta_tile" ->
            [op |-> "fetch_slot_meta_tile", entry_id |-> info.entry_id, tile_id |-> info.tile_id]

\* What the data source returns for a call, when it returns
DataSourceValue(call) ==
    CASE call.op = "fetch_info" -> DataSource_fetch_info
      [] call.op = "fetch_tile_set" -> DataSource_fetch_tile_sets
      [] call.op = "fetch_summary_tile" ->
            DataSource_fetch_summary_tile(call.entry_id, call.tile_id)
      [] call.op = "fetch_slot_tile" ->
            DataSource_fetch_slot_tile(call.entry_id, call.tile_id)
      [] call.op = "fetch_slot_meta_tile" ->
            DataSource_fetch_slot_meta_tile(call.entry_id, call.tile_id)

\* Ok(web::Json(result)): a 200 response whose body is the JSON of result
JsonResponder(handler, result) ==
    HttpResponse(200,
        CASE handler = "fetch_info" -> Info_to_json(result)
          [] handler = "fetch_tile_set" -> TileSets_to_json(result)
          [] OTHER -> Tile_to_json(result))

\* A POST arrives and is routed to its handler.
Server_receive(q) ==
    /\ s_pc[q] = "none"
    /\ \E path \in Paths, entry_id \in EntryIDs, tile_id \in TileIDs :
        s_request' = [s_request EXCEPT ![q] =
            [path |-> path,
             body |-> IF path \in {"/info", "/tile_set"}
                      THEN <<>>
                      ELSE FetchRequest_to_json(entry_id, tile_id)]]
    /\ s_pc' = [s_pc EXCEPT ![q] = "routed"]
    /\ UNCHANGED <<s_mutex, s_invoked, s_result, s_response>>
    /\ UNCHANGED <<wrapper_vars, remote_vars, timestamp_vars>>

\* mutant: `let _ = mutex.lock().unwrap();` drops the guard at once
guard_holder_dropped_at_once(q) == 0

\* let mut source = mutex.lock().unwrap(): the guard lives in `source`
guard_holder(q) == q

\* mutex.lock().unwrap().  lock() blocks until the mutex is free; on a
\* poisoned mutex it returns Err and unwrap panics, which drops the guard
\* carried by the error.
Handler_lock(q) ==
    /\ s_pc[q] = "routed"
    /\ s_mutex.owner = 0
    /\ IF s_mutex.poisoned
       THEN /\ s_pc' = [s_pc EXCEPT ![q] = "panicked"]
            /\ s_response' = [s_response EXCEPT ![q] = ConnectionClosed]
            /\ UNCHANGED s_mutex
       ELSE /\ s_pc' = [s_pc EXCEPT ![q] = "locked"]
            /\ s_mutex' = [s_mutex EXCEPT !.owner = guard_holder(q)]
            /\ UNCHANGED s_response
    /\ UNCHANGED <<s_request, s_invoked, s_result>>
    /\ UNCHANGED <<wrapper_vars, remote_vars, timestamp_vars>>

\* let result = source.fetch_*(..): the call enters the data source
Handler_call_source(q) ==
    /\ s_pc[q] = "locked"
    /\ s_invoked' = [s_invoked EXCEPT ![q] =
            Append(@, HandlerCall(Route(s_request[q].path), ExtractInfo(s_request[q])))]
    /\ s_pc' = [s_pc EXCEPT ![q] = "in_source"]
    /\ UNCHANGED <<s_mutex, s_request, s_result, s_response>>
    /\ UNCHANGED <<wrapper_vars, remote_vars, timestamp_vars>>

\* the data source returns its value
DataSource_return(q) ==
    /\ s_pc[q] = "in_source"
    /\ s_result' = [s_result EXCEPT ![q] = Some(DataSourceValue(s_invoked[q][Len(s_invoked[q])]))]
    /\ s_pc' = [s_pc EXCEPT ![q] = "returned"]
    /\ UNCHANGED <<s_mutex, s_request, s_invoked, s_response>>
    /\ UNCHANGED <<wrapper_vars, remote_vars, timestamp_vars>>

\* the data source fails: the panic unwinds through the handler, the
\* MutexGuard is dropped while panicking, which poisons the mutex
DataSource_panic(q) ==
    /\ s_pc[q] = "in_source"
    /\ s_mutex' = [owner |-> IF s_mutex.owner = q THEN 0 ELSE s_mutex.owner,
                   poisoned |-> TRUE]
    /\ s_pc' = [s_pc EXCEPT ![q] = "panicked"]
    /\ s_response' = [s_response EXCEPT ![q] = ConnectionClosed]
    /\ UNCHANGED <<s_request, s_invoked, s_result>>
    /\ UNCHANGED <<wrapper_vars, remote_vars, timestamp_vars>>

\* mutant: the guard outlives the handler (as with mem::forget(source))
Handler_respond_keeps_guard(q) ==
    /\ s_pc[q] = "returned"
    /\ s_response' = [s_response EXCEPT ![q] =
            JsonResponder(Route(s_request[q].path), s_result[q][2])]
    /\ s_pc' = [s_pc EXCEPT ![q] = "responded"]
    /\ UNCHANGED <<s_mutex, s_request, s_invoked, s_result>>
    /\ UNCHANGED <<wrapper_vars, remote_vars, timestamp_vars>>

\* Ok(web::Json(result)) and the end of the handler, where the guard is dropped
Handler_respond(q) ==
    /\ s_pc[q] = "returned"
    /\ s_response' = [s_response EXCEPT ![q] =
            JsonResponder(Route(s_request[q].path), s_result[q][2])]
    /\ s_mutex' = [s_mutex EXCEPT !.owner = IF @ = q THEN 0 ELSE @]
    /\ s_pc' = [s_pc EXCEPT ![q] = "responded"]
    /\ UNCHANGED <<s_request, s_invoked, s_result>>
    /\ UNCHANGED <<wrapper_vars, remote_vars, timestamp_vars>>

ServerNext ==
    \/ \E q \in HttpRequests : Server_receive(q)
    \/ \E q \in HttpRequests : Handler_lock(q)
    \/ \E q \in HttpRequests : Handler_call_source(q)
    \/ \E q \in HttpRequests : DataSource_return(q)
    \/ \E q \in HttpRequests : DataSource_panic(q)
    \/ \E q \in HttpRequests : Handler_respond(q)

\* --------------------------------------------------- Interval
\* Timestamp(pub i64): nanoseconds
Timestamps == -1..MaxTimestamp

\* Interval::new(start, stop): no check that start <= stop
Interval_new(start, stop) == [start |-> start, stop |-> stop]

Intervals == {Interval_new(start, stop) : start \in Timestamps, stop \in Timestamps}

Max(x, y) == IF x >= y THEN x ELSE y

Min(x, y) == IF x <= y THEN x ELSE y

\* mutant: the upper bound is inclusive
contains_closed(self, point) == point >= self.start /\ point <= self.stop

\* point >= self.start && point < self.stop
contains(self, point) == point >= self.start /\ point < self.stop

\* !(other.stop < self.start || other.start >= self.stop)
overlaps(self, other) == ~(other.stop < self.start \/ other.start >= self.stop)

\* mutant: start and stop of the intersection are exchanged
intersection_swapped(self, other) ==
    [start |-> Min(self.stop, other.stop), stop |-> Max(self.start, other.start)]

\* Self { start: max(self.start, other.start), stop: min(self.stop, other.stop) }
intersection(self, other) ==
    [start |-> Max(self.start, other.start), stop |-> Min(self.stop, other.stop)]

\* #[derive(Default)]: Interval { start: Timestamp(0), stop: Timestamp(0) }
IntervalIdle ==
    /\ i_self = Interval_new(0, 0)
    /\ i_other = Interval_new(0, 0)
    /\ i_point = 0
    /\ i_out = [op |-> "none", val |-> FALSE]

\* the operands of one experiment
IntervalInputs ==
    /\ i_self \in Intervals
    /\ i_other \in Intervals
    /\ i_point \in Timestamps
    /\ i_out = [op |-> "none", val |-> FALSE]

Interval_contains ==
    /\ i_out' = [op |-> "contains", val |-> contains(i_self, i_point)]
    /\ UNCHANGED <<i_self, i_other, i_point>>
    /\ UNCHANGED <<wrapper_vars, remote_vars, server_vars, parse_vars>>

Interval_overlaps ==
    /\ i_out' = [op |-> "overlaps", val |-> overlaps(i_self, i_other)]
    /\ UNCHANGED <<i_self, i_other, i_point>>
    /\ UNCHANGED <<wrapper_vars, remote_vars, server_vars, parse_vars>>

Interval_intersection ==
    /\ i_out' = [op |-> "intersection", val |-> intersection(i_self, i_other)]
    /\ UNCHANGED <<i_self, i_other, i_point>>
    /\ UNCHANGED <<wrapper_vars, remote_vars, server_vars, parse_vars>>

IntervalNext ==
    \/ Interval_contains
    \/ Interval_overlaps
    \/ Interval_intersection

\* --------------------------------------------------- parse_timestamp
\* Strings are sequences of characters over a small alphabet: a digit, the
\* decimal point, lower- and upper-case letters and white space.
Chars == {"5", ".", "m", "s", "S", " "}

\* the strings of up to MaxLen characters
Strings == UNION {[1..n -> Chars] : n \in 0..MaxLen}

\* char::is_numeric
is_numeric(c) == c = "5"

\* char::is_alphabetic
is_alphabetic(c) == c \in {"m", "s", "S"}

\* char::is_whitespace
is_whitespace(c) == c = " "

\* str::split_whitespace: the maximal runs of non-white-space characters,
\* collected here in tokens with the run being read in cur
RECURSIVE split_whitespace_from(_, _, _)
split_whitespace_from(s, cur, tokens) ==
    IF s = <<>> THEN (IF cur = <<>> THEN tokens ELSE Append(tokens, cur))
    ELSE IF is_whitespace(Head(s))
        THEN split_whitespace_from(Tail(s), <<>>,
                                   IF cur = <<>> THEN tokens ELSE Append(tokens, cur))
        ELSE split_whitespace_from(Tail(s), Append(cur, Head(s)), tokens)

split_whitespace(s) == split_whitespace_from(s, <<>>, <<>>)

\* prefix.trim_start_matches(|c| c.is_numeric() || c == '.')
RECURSIVE trim_start_numeric_or_dot(_)
trim_start_numeric_or_dot(s) ==
    IF s # <<>> /\ (is_numeric(Head(s)) \/ Head(s) = ".")
        THEN trim_start_numeric_or_dot(Tail(s))
        ELSE s

\* prefix.trim_end_matches(|c| c.is_alphabetic())
RECURSIVE trim_end_alphabetic(_)
trim_end_alphabetic(s) ==
    IF s # <<>> /\ is_alphabetic(s[Len(s)])
        THEN trim_end_alphabetic(SubSeq(s, 1, Len(s) - 1))
        ELSE s

\* mutant: every run of digits and points is taken for a number
RECURSIVE parse_f64_lenient_from(_, _)
parse_f64_lenient_from(v, acc) ==
    IF v = <<>> THEN Ok([num |-> acc.num, den |-> acc.den])
    ELSE IF Head(v) = "." THEN parse_f64_lenient_from(Tail(v), [acc EXCEPT !.dot = TRUE])
    ELSE IF is_numeric(Head(v))
        THEN parse_f64_lenient_from(Tail(v),
                [acc EXCEPT !.num = acc.num * 10 + 5,
                            !.den = IF acc.dot THEN acc.den * 10 ELSE acc.den])
        ELSE Err("ParseFloatError")

parse_f64_lenient(v) ==
    parse_f64_lenient_from(v, [num |-> 0, den |-> 1, dot |-> FALSE, digits |-> 0])

\* str::parse::<f64> on the characters of the alphabet: digits with at most one
\* decimal point and at least one digit; the value is the fraction num / den
RECURSIVE parse_f64_from(_, _)
parse_f64_from(v, acc) ==
    IF v = <<>>
        THEN (IF acc.digits = 0 THEN Err("ParseFloatError")
              ELSE Ok([num |-> acc.num, den |-> acc.den]))
    ELSE IF Head(v) = "."
        THEN (IF acc.dot THEN Err("ParseFloatError")
              ELSE parse_f64_from(Tail(v), [acc EXCEPT !.dot = TRUE]))
    ELSE IF is_numeric(Head(v))
        THEN parse_f64_from(Tail(v),
                [acc EXCEPT !.num = acc.num * 10 + 5,
                            !.den = IF acc.dot THEN acc.den * 10 ELSE acc.den,
                            !.digits = acc.digits + 1])
        ELSE Err("ParseFloatError")

parse_f64(v) ==
    parse_f64_from(v, [num |-> 0, den |-> 1, dot |-> FALSE, digits |-> 0])

\* str::to_lowercase
to_lowercase(s) == [i \in 1..Len(s) |-> IF s[i] = "S" THEN "s" ELSE s[i]]

ns_per_ms == 1000000

ns_per_s == 1000000000

\* (value * scale as f64) as i64, for a value >= 0 and a scale that is a power
\* of ten: the powers of ten common to scale and value.den are cancelled, then
\* the quotient is truncated toward zero. The i64 is coefficient * multiplier,
\* kept as the two factors because the product does not fit 32 bits.
RECURSIVE scale_to_ns(_, _)
scale_to_ns(value, scale) ==
    IF value.den > 1 /\ scale > 1
        THEN scale_to_ns([value EXCEPT !.den = value.den \div 10], scale \div 10)
        ELSE [coefficient |-> value.num \div value.den, multiplier |-> scale]

\* mutant: the unit token and the trailing tokens are checked before the
\* value is parsed
parse_timestamp_unit_first(s) ==
    LET parts == split_whitespace(s) IN
    IF parts = <<>> THEN Err("NoValue")
    ELSE
    LET prefix == parts[1]
        attached == trim_start_numeric_or_dot(prefix)
        value == trim_end_alphabetic(prefix)
    IN
    IF attached = <<>> /\ Len(parts) < 2 THEN Err("NoUnit")
    ELSE
    LET unit == IF attached = <<>> THEN parts[2] ELSE attached
        rest == IF attached = <<>> THEN SubSeq(parts, 3, Len(parts))
                ELSE SubSeq(parts, 2, Len(parts))
    IN
    IF rest # <<>> THEN Err("InvalidValue")
    ELSE IF value = <<>> THEN Err("NoValue")
    ELSE IF parse_f64(value)[1] = "Err" THEN Err("InvalidValue")
    ELSE
    LET number == parse_f64(value)[2]
        lower == to_lowercase(unit)
    IN
    IF lower = <<"s">> THEN Ok(scale_to_ns(number, ns_per_s))
    ELSE IF lower = <<"m", "s">> THEN Ok(scale_to_ns(number, ns_per_ms))
    ELSE Err("InvalidUnit")

\* Interval::parse_timestamp. Of the units ns, us, ms and s the alphabet can
\* spell ms and s.
parse_timestamp(s) ==
    LET parts == split_whitespace(s) IN
    \* parts.next().ok_or(NoValue)?
    IF parts = <<>> THEN Err("NoValue")
    ELSE
    LET prefix == parts[1]
        attached == trim_start_numeric_or_dot(prefix)
        value == trim_end_alphabetic(prefix)
    IN
    IF value = <<>> THEN Err("NoValue")
    \* value.parse::<f64>().map_err(|_| InvalidValue)?
    ELSE IF parse_f64(value)[1] = "Err" THEN Err("InvalidValue")
    \* if unit.is_empty() { unit = parts.next().ok_or(NoUnit)? }
    ELSE IF attached = <<>> /\ Len(parts) < 2 THEN Err("NoUnit")
    ELSE
    LET number == parse_f64(value)[2]
        unit == IF attached = <<>> THEN parts[2] ELSE attached
        rest == IF attached = <<>> THEN SubSeq(parts, 3, Len(parts))
                ELSE SubSeq(parts, 2, Len(parts))
    IN
    \* if parts.next().is_some() { return Err(InvalidValue) }
    IF rest # <<>> THEN Err("InvalidValue")
    ELSE
    LET lower == to_lowercase(unit) IN
    IF lower = <<"s">> THEN Ok(scale_to_ns(number, ns_per_s))
    ELSE IF lower = <<"m", "s">> THEN Ok(scale_to_ns(number, ns_per_ms))
    ELSE Err("InvalidUnit")

\* no parse in progress
ParseIdle ==
    /\ p_s = <<>>
    /\ p_result = None

\* the argument of one call
ParseInputs ==
    /\ p_s \in Strings
    /\ p_result = None

Interval_parse_timestamp ==
    /\ p_result = None
    /\ p_result' = Some(parse_timestamp(p_s))
    /\ UNCHANGED p_s
    /\ UNCHANGED <<wrapper_vars, remote_vars, server_vars, interval_vars>>

ParseNext == Interval_parse_timestamp

TimestampIdle == IntervalIdle /\ ParseIdle

Init == WrapperInit /\ RemoteInit /\ ServerInit /\ TimestampIdle

\* a native build
InitNative == Init /\ backend = "native"

\* The wrapper is the same in either build.
SpecWrapper == InitNative /\ [][WrapperNext]_vars

SpecRemote == Init /\ [][RemoteNext]_vars

\* The server is built for native hosts only (http/mod.rs:4-5, feature "server").
SpecServer == InitNative /\ [][ServerNext]_vars

\* The server over a data source whose operations always return.
ServerNextReturning ==
    \/ \E q \in HttpRequests : Server_receive(q)
    \/ \E q \in HttpRequests : Handler_lock(q)
    \/ \E q \in HttpRequests : Handler_call_source(q)
    \/ \E q \in HttpRequests : DataSource_return(q)
    \/ \E q \in HttpRequests : Handler_respond(q)

\* Each handler runs on a worker thread of the actix runtime (HttpServer::run):
\* a handler that can take a step is eventually scheduled, and a data-source
\* call in progress returns.  Arrivals of requests are not forced.  Weak
\* fairness is enough for lock() here because the number of requests is
\* bounded: std's Mutex promises no order among the waiters.
ServerFairness ==
    \A q \in HttpRequests :
        /\ WF_vars(Handler_lock(q))
        /\ WF_vars(Handler_call_source(q))
        /\ WF_vars(DataSource_return(q))
        /\ WF_vars(Handler_respond(q))

SpecServerLive == InitNative /\ [][ServerNextReturning]_vars /\ ServerFairness

InitInterval ==
    /\ WrapperInit /\ RemoteInit /\ backend = "native" /\ ServerInit
    /\ IntervalInputs /\ ParseIdle

SpecInterval == InitInterval /\ [][IntervalNext]_vars

InitParse ==
    /\ WrapperInit /\ RemoteInit /\ backend = "native" /\ ServerInit
    /\ IntervalIdle /\ ParseInputs

SpecParse == InitParse /\ [][ParseNext]_vars

\* ------------------------------------------------- Local Wrapper: claims

Buffer(k) ==
    CASE k = "summary" -> summary_tiles
      [] k = "slot" -> slot_tiles
      [] k = "slot_meta" -> slot_meta_tiles

GetOp(k) ==
    CASE k = "summary" -> "get_summary_tiles"
      [] k = "slot" -> "get_slot_tiles"
      [] k = "slot_meta" -> "get_slot_meta_tiles"

\* C3: on the Local Wrapper no fetch is lost and none is delivered twice.  For
\* each kind, the batches returned so far followed by the buffer are exactly
\* the data source's tiles of the fetch calls so far, one entry per call in
\* call order; and right after a get_* of that kind the buffer is empty and
\* every fetch made so far has been delivered (so a tile is in the first drain
\* after its fetch and in no other).
C3_NoLossNoDuplicate ==
    \A k \in Kinds :
        /\ w_drained[k] \o Buffer(k) = w_fetched[k]
        /\ w_ret.op = GetOp(k) =>
            /\ Buffer(k) = <<>>
            /\ w_drained[k] = w_fetched[k]
            /\ Len(w_ret.val) <= Len(w_drained[k])
            /\ w_ret.val = SubSeq(w_drained[k],
                                  Len(w_drained[k]) - Len(w_ret.val) + 1,
                                  Len(w_drained[k]))

\* C3 witness: a second non-empty drain of summary tiles has just returned,
\* after an earlier drain of the same kind delivered other fetches.
C3_Witness ==
    /\ w_ret.op = "get_summary_tiles"
    /\ Len(w_ret.val) = 2
    /\ Len(w_drained["summary"]) = 3
    /\ summary_tiles = <<>>

\* C4: draining is take-all-and-clear.  A get_summary_tiles made when no
\* fetch_summary_tile completed since the previous drain (or before any fetch)
\* returns the empty batch; a get_summary_tiles directly after another
\* get_summary_tiles returns the empty batch; and a get_summary_tiles leaves
\* the buffer empty.
C4_TakeAllAndClear ==
    [][ /\ (w_ret'.op = "get_summary_tiles"
            /\ Len(w_fetched["summary"]) = Len(w_drained["summary"]))
           => w_ret'.val = <<>>
        /\ (w_ret.op = "get_summary_tiles" /\ w_ret'.op = "get_summary_tiles")
           => w_ret'.val = <<>>
        /\ w_ret'.op = "get_summary_tiles" => summary_tiles' = <<>>
      ]_vars

\* C4 witness: an empty batch was returned by a drain that follows a drain
\* which returned a tile.
C4_Witness ==
    /\ w_ret.op = "get_summary_tiles"
    /\ w_ret.val = <<>>
    /\ Len(w_drained["summary"]) >= 1
    /\ w_drained["summary"] = w_fetched["summary"]

\* C10: get_info and get_tile_sets always return a present value, the data
\* source's metadata, whether or not fetch_info / fetch_tile_sets was called;
\* and no call of fetch_info, fetch_tile_sets, get_info or get_tile_sets
\* changes a field of the wrapper.
C10_InfoAlwaysPresent ==
    /\ [](w_ret.op = "get_info" => w_ret.val = Some(DataSource_fetch_info))
    /\ [](w_ret.op = "get_tile_sets" => w_ret.val = Some(DataSource_fetch_tile_sets))
    /\ [][ w_ret'.op \in {"fetch_info", "fetch_tile_sets", "get_info", "get_tile_sets"}
           => UNCHANGED <<summary_tiles, slot_tiles, slot_meta_tiles>> ]_vars

\* C10 witness: get_info has returned although fetch_info was never called,
\* with tiles still buffered.
C10_Witness ==
    /\ w_ret.op = "get_info"
    /\ "fetch_info" \notin w_requested
    /\ summary_tiles # <<>>

\* ------------------------------------------- Transport backends: claims

\* the worker thread / the task of request r has ended
Finished(r) == t_pc[r] \in {"done", "panicked"}

\* C1: in both backends on_done is invoked exactly once per fetch call: never
\* more than once, and once the worker / task of a request has ended, whether
\* the request succeeded, the send failed or the body could not be read, it
\* has been invoked.
C1_CallbackExactlyOnce ==
    \A r \in Requests :
        /\ Len(t_callbacks[r]) <= 1
        /\ Finished(r) => Len(t_callbacks[r]) = 1

\* C2: in both backends a failed send or an unreadable body is reported to
\* the callback as an Err value: the worker / task does not panic on it and
\* the callback of such a request is never given an Ok body.
C2_FailureReportedAsErr ==
    \A r \in Requests :
        (t_send[r] = "Err" \/ t_text[r] = "Err") =>
            /\ t_pc[r] # "panicked"
            /\ \A i \in DOMAIN t_callbacks[r] : t_callbacks[r][i][1] = "Err"
            /\ t_pc[r] = "done" => t_callbacks[r] # <<>>

\* ------------------------------------------- Remote Queue Client: claims

Issued == {r \in Requests : t_pc[r] # "unused"}

Fired == {r \in Requests : t_callbacks[r] # <<>>}

RequestedSlotTile(r) ==
    LET info == FetchRequest_from_json(t_request[r].body)[2]
    IN  DataSource_fetch_slot_tile(info.entry_id, info.tile_id)

Delivered == c_drained \o c_slot_tiles

RequestInfo(q) == FetchRequest_from_json(s_request[q].body)[2]

\* C6: at most one handler is executing an operation on the shared data
\* source at any time, and a handler holds the mutex from before its source
\* operation starts until after the operation has returned.
C6_SourceAccessSerialized ==
    /\ Cardinality({q \in HttpRequests : s_pc[q] = "in_source"}) <= 1
    /\ \A q \in HttpRequests :
        s_pc[q] \in {"locked", "in_source", "returned"} => s_mutex.owner = q

\* C6 witness: one handler is inside the data source while another request
\* waits for the mutex.
C6_Witness ==
    \E q1, q2 \in HttpRequests :
        /\ q1 # q2
        /\ s_pc[q1] = "in_source"
        /\ s_pc[q2] = "routed"

\* C7: a request whose data-source operation failed gets an HTTP response
\* with an error status.
C7_SourceFailureIsHttpError ==
    \A q \in HttpRequests :
        (s_pc[q] = "panicked" /\ s_invoked[q] # <<>>) =>
            /\ s_response[q].kind = "http"
            /\ s_response[q].status >= 400

OperationOfPath(path) ==
    CASE path = "/info" -> "fetch_info"
      [] path = "/tile_set" -> "fetch_tile_set"
      [] path = "/summary_tile" -> "fetch_summary_tile"
      [] path = "/slot_tile" -> "fetch_slot_tile"
      [] path = "/slot_meta_tile" -> "fetch_slot_meta_tile"

\* C9: every request the server has finished handling invoked the
\* data-source operation of its path exactly once, with the (entry_id,
\* tile_id) of the request, and no request ever invokes it a second time.
C9_OperationInvokedExactlyOnce ==
    \A q \in HttpRequests :
        /\ Len(s_invoked[q]) <= 1
        /\ s_pc[q] \in {"responded", "panicked"} =>
            /\ Len(s_invoked[q]) = 1
            /\ s_invoked[q][1].op = OperationOfPath(s_request[q].path)
            /\ s_request[q].path \notin {"/info", "/tile_set"} =>
                /\ s_invoked[q][1].entry_id = RequestInfo(q).entry_id
                /\ s_invoked[q][1].tile_id = RequestInfo(q).tile_id

\* C17: the Local Wrapper does not deduplicate.  The batch a
\* get_summary_tiles returns has, for every (entry, tile) key, as many entries
\* as fetch_summary_tile calls were made for that key since the previous
\* drain, and as many entries in all as calls since the previous drain.
C17_NoDeduplication ==
    [][ w_ret'.op = "get_summary_tiles" =>
            LET calls == SubSeq(w_fetched["summary"],
                                Len(w_drained["summary"]) + 1,
                                Len(w_fetched["summary"]))
            IN  /\ Len(w_ret'.val) = Len(calls)
                /\ \A entry_id \in EntryIDs, tile_id \in TileIDs :
                    LET tile == DataSource_fetch_summary_tile(entry_id, tile_id) IN
                    Cardinality({i \in 1..Len(w_ret'.val) : w_ret'.val[i] = tile})
                        = Cardinality({i \in 1..Len(calls) : calls[i] = tile})
      ]_vars

\* C17 witness: a drain returned two entries for the same key, after an
\* earlier drain.
C17_Witness ==
    /\ w_ret.op = "get_summary_tiles"
    /\ Len(w_ret.val) = 2
    /\ w_ret.val[1] = w_ret.val[2]
    /\ Len(w_drained["summary"]) = 3

\* C18: the three buffers are independent.  A fetch or a get of one kind
\* leaves the buffers of the other two kinds unchanged; a drain returns only
\* tiles of its own kind; fetch_info, fetch_tile_sets, get_info and
\* get_tile_sets leave all three buffers unchanged.
C18_BuffersIndependent ==
    [][ /\ w_ret'.op \in {"fetch_summary_tile", "get_summary_tiles"}
            => UNCHANGED <<slot_tiles, slot_meta_tiles>>
        /\ w_ret'.op \in {"fetch_slot_tile", "get_slot_tiles"}
            => UNCHANGED <<summary_tiles, slot_meta_tiles>>
        /\ w_ret'.op \in {"fetch_slot_meta_tile", "get_slot_meta_tiles"}
            => UNCHANGED <<summary_tiles, slot_tiles>>
        /\ w_ret'.op \in {"fetch_info", "fetch_tile_sets", "get_info", "get_tile_sets"}
            => UNCHANGED <<summary_tiles, slot_tiles, slot_meta_tiles>>
        /\ \A k \in Kinds :
            w_ret'.op = GetOp(k) =>
                /\ \A i \in 1..Len(w_ret'.val) : w_ret'.val[i].kind = k
                /\ Len(w_ret'.val) = Len(Buffer(k))
      ]_vars

\* C18 witness: a drain of summary tiles returned a tile while a slot tile
\* and a slot meta tile stay buffered.
C18_Witness ==
    /\ w_ret.op = "get_summary_tiles"
    /\ Len(w_ret.val) = 1
    /\ Len(slot_tiles) = 1
    /\ Len(slot_meta_tiles) = 1

\* C19: failure isolation.  After a request failed because its data-source
\* operation panicked under the lock, later requests still acquire the lock
\* and are served: a request fails only if its own data-source operation
\* failed.
C19_FailureIsolated ==
    \A q \in HttpRequests :
        s_pc[q] = "panicked" => s_invoked[q] # <<>>

\* C20: server progress.  No handler that has ended or is still waiting owns
\* the lock; a waiting request stops waiting only by acquiring the lock, and a
\* request received stays received; and with fair scheduling and a data
\* source whose operations return, every behaviour reaches a point after
\* which no request is waiting or in progress: every request received has
\* acquired the lock and has its response (so no deadlock on the lock).
C20_ServerProgress ==
    /\ [](\A q \in HttpRequests : s_pc[q] \in {"none", "routed", "responded"}
                                    => s_mutex.owner # q)
    /\ [][\A q \in HttpRequests :
            /\ (s_pc[q] = "routed" /\ s_pc'[q] # "routed") => s_mutex'.owner = q
            /\ s_pc[q] # "none" => s_pc'[q] # "none"]_vars
    /\ <>[](\A q \in HttpRequests :
                \/ s_pc[q] = "none"
                \/ s_pc[q] = "responded" /\ s_response[q].kind = "http")

\* C20 witness: a request holds the lock after another request, which was
\* served, has released it.
C20_Witness ==
    \E q1, q2 \in HttpRequests :
        /\ q1 # q2
        /\ s_pc[q1] = "responded"
        /\ s_response[q1].kind = "http"
        /\ s_mutex.owner = q2
        /\ s_pc[q2] = "in_source"

\* ------------------------------------------------- Interval: claims

\* C11: overlaps is symmetric: a.overlaps(b) = b.overlaps(a) for all
\* intervals a and b.
C11_OverlapsSymmetric ==
    i_out.op = "overlaps" => i_out.val = overlaps(i_other, i_self)

C13_OverlapsFalseIffApart ==
    i_out.op = "overlaps" =>
        (i_out.val = FALSE <=>
            (i_self.stop <= i_other.start \/ i_other.stop <= i_self.start))

\* C14 as stated: for t1 <= t2, Interval::new(t1, t2) contains t1 and does
\* not contain t2.
C14_HalfOpenBoundary ==
    (i_out.op = "contains" /\ i_self.start <= i_self.stop) =>
        /\ i_point = i_self.start => i_out.val = TRUE
        /\ i_point = i_self.stop => i_out.val = FALSE

\* C14 amended: for t1 < t2, Interval::new(t1, t2) contains t1; for t1 <= t2
\* it does not contain t2 (for t1 = t2 the interval is empty and contains
\* neither).
C14_HalfOpenBoundaryNonEmpty ==
    i_out.op = "contains" =>
        /\ (i_self.start < i_self.stop /\ i_point = i_self.start) => i_out.val = TRUE
        /\ (i_self.start <= i_self.stop /\ i_point = i_self.stop) => i_out.val = FALSE

\* C14 witness: contains was asked for the stop of a non-empty interval.
C14_Witness ==
    /\ i_out.op = "contains"
    /\ i_self.start < i_self.stop
    /\ i_point = i_self.stop
    /\ i_out.val = FALSE

\* ------------------------------------------------- parse_timestamp: claims
Tokens(s) == split_whitespace(s)

\* the first token without its trailing letters
ValuePart(s) == trim_end_alphabetic(Tokens(s)[1])

\* what follows the leading digits and points of the first token
AttachedUnit(s) == trim_start_numeric_or_dot(Tokens(s)[1])

\* a decimal number: digits with at most one point and at least one digit
WellFormedNumber(v) ==
    /\ \A i \in 1..Len(v) : v[i] \in {"5", "."}
    /\ Cardinality({i \in 1..Len(v) : v[i] = "."}) <= 1
    /\ \E i \in 1..Len(v) : v[i] = "5"

RuleEmpty(s) == Tokens(s) = <<>>

RuleNoValue(s) == ValuePart(s) = <<>>

RuleNotNumeric(s) == ~WellFormedNumber(ValuePart(s))

RuleNoUnit(s) == AttachedUnit(s) = <<>> /\ Len(Tokens(s)) = 1

RuleExtraTokens(s) ==
    Len(Tokens(s)) > (IF AttachedUnit(s) = <<>> THEN 2 ELSE 1)

RuleUnknownUnit(s) ==
    LET unit == IF AttachedUnit(s) # <<>> THEN AttachedUnit(s)
                ELSE IF Len(Tokens(s)) >= 2 THEN Tokens(s)[2] ELSE <<>>
    IN \A u \in {<<"s">>, <<"S">>, <<"m", "s">>, <<"m", "S">>} : unit # u

\* Ok, or the error kind
Kind(res) == IF res[1] = "Ok" THEN "Ok" ELSE res[2]

\* the first rule broken, in the order of the statement
FirstBrokenAsListed(s) ==
    IF RuleEmpty(s) THEN "NoValue"
    ELSE IF RuleNoUnit(s) THEN "NoUnit"
    ELSE IF RuleExtraTokens(s) THEN "InvalidValue"
    ELSE IF RuleNoValue(s) THEN "NoValue"
    ELSE IF RuleNotNumeric(s) THEN "InvalidValue"
    ELSE IF RuleUnknownUnit(s) THEN "InvalidUnit"
    ELSE "Ok"

\* the first rule broken, the value being checked before the unit
FirstBrokenValueFirst(s) ==
    IF RuleEmpty(s) THEN "NoValue"
    ELSE IF RuleNoValue(s) THEN "NoValue"
    ELSE IF RuleNotNumeric(s) THEN "InvalidValue"
    ELSE IF RuleNoUnit(s) THEN "NoUnit"
    ELSE IF RuleExtraTokens(s) THEN "InvalidValue"
    ELSE IF RuleUnknownUnit(s) THEN "InvalidUnit"
    ELSE "Ok"

\* C15 as stated: an input breaking several rules gets the error of the first
\* rule in the listed order: empty input (NoValue), missing unit (NoUnit),
\* extra trailing tokens (InvalidValue), non-numeric value (InvalidValue, or
\* NoValue when there is no value), unrecognized unit (InvalidUnit).
C15_RejectionOrderAsListed ==
    p_result # None => Kind(p_result[2]) = FirstBrokenAsListed(p_s)

\* C15 amended: the value is checked before the unit. The order is: empty
\* input (NoValue), nothing in front of the first token's trailing letters
\* (NoValue), non-numeric value (InvalidValue), missing unit (NoUnit), extra
\* trailing tokens (InvalidValue), unrecognized unit (InvalidUnit); the call
\* always returns, with Ok or one of these four kinds.
C15_RejectionOrderValueFirst ==
    p_result # None =>
        /\ Kind(p_result[2]) = FirstBrokenValueFirst(p_s)
        /\ Kind(p_result[2]) \in {"Ok", "NoValue", "InvalidValue", "NoUnit", "InvalidUnit"}

\* C15 witness: an input with a malformed value and no unit was rejected.
C15_Witness ==
    /\ p_result # None
    /\ ~RuleEmpty(p_s)
    /\ ~RuleNoValue(p_s)
    /\ RuleNotNumeric(p_s)
    /\ RuleNoUnit(p_s)
    /\ Kind(p_result[2]) = "InvalidValue"

\* C16: an input whose first token has a malformed numeric part (present but
\* not a decimal number) is rejected with InvalidValue, whether or not a
\* valid unit follows; NoUnit is returned only for a well-formed numeric part.
C16_MalformedValueIsInvalidValue ==
    (p_result # None /\ ~RuleEmpty(p_s)) =>
        /\ (~RuleNoValue(p_s) /\ RuleNotNumeric(p_s)) =>
                Kind(p_result[2]) = "InvalidValue"
        /\ Kind(p_result[2]) = "NoUnit" => WellFormedNumber(ValuePart(p_s))

\* C16 witness: a value with two decimal points followed by a valid unit, and
\* nothing else wrong, was rejected.
C16_Witness ==
    /\ p_result # None
    /\ ~RuleEmpty(p_s)
    /\ Cardinality({i \in 1..Len(ValuePart(p_s)) : ValuePart(p_s)[i] = "."}) = 2
    /\ ~RuleNoUnit(p_s)
    /\ ~RuleExtraTokens(p_s)
    /\ ~RuleUnknownUnit(p_s)
    /\ Kind(p_result[2]) = "InvalidValue"

====
